---- MODULE Spec2Model ----
(***************************************************************************)
(* Model of the TCP demonstration pair: the server (Responder) of          *)
(* src/unnamed/part_000 and the client (Requester) of src/client.c.        *)
(*                                                                         *)
(* Bytes are naturals (ASCII codes), C arrays are sequences of their full  *)
(* declared size, a C string is the part of an array before its first NUL. *)
(* Every blocking socket call (accept, connect, send, recv, close) is one  *)
(* action; the straight-line code that follows a call up to the next       *)
(* socket call belongs to the same action.                                 *)
(***************************************************************************)
EXTENDS Integers, Sequences, FiniteSets, TLC

\* ------------------------------------------------------------- constants
BUFFER_SIZE == 256

MESSAGE_SIZE == 200

\* sizeof(int) bytes of message_length follow the padding of the struct
INT_SIZE == 4

\* ---------------------------------------------------------------- bounds
\* user inputs reach BUFFER_SIZE - 1 + MaxExtra bytes
MaxExtra == 1

\* a recv may return a short first chunk of 1..MaxSplit bytes
MaxSplit == 1

\* environment faults (connection resets, accept failures) per behaviour
MaxFaults == 1

\* the Requester processes
Clients == {1, 2}

\* ----------------------------------------------------------------- bytes
NUL == 0

\* a byte of an object that was never written
Indet == -1

\* values an uninitialised byte that IS read may turn out to have
Garbage == {0, 88}

Fills == {65}

\* lengths of the user input: empty, short, around the size of msg.message
\* and around the size of the buffers
InputLens ==
    {0, 1, 5, MESSAGE_SIZE - 2, MESSAGE_SIZE - 1, MESSAGE_SIZE, BUFFER_SIZE - 2,
     BUFFER_SIZE - 1} \cup {BUFFER_SIZE - 1 + k : k \in 1..MaxExtra}

\* lengths of the user input where two Requesters run
QueueLens == {0, MESSAGE_SIZE}

Min(a, b) == IF a < b THEN a ELSE b

Fill(n, b) == [k \in 1..n |-> b]

Take(s, n) == SubSeq(s, 1, Min(n, Len(s)))

Drop(s, n) == SubSeq(s, n + 1, Len(s))

\* strlen: the number of bytes before the first NUL; the scan runs to the
\* end of what it is given when there is none
strlen(a) ==
    LET nuls == {k \in 1..Len(a) : a[k] = NUL}
    IN  IF nuls = {} THEN Len(a)
        ELSE (CHOOSE k \in nuls : \A j \in nuls : k <= j) - 1

CStr(a) == SubSeq(a, 1, strlen(a))

Terminated(a) == \E k \in 1..Len(a) : a[k] = NUL

\* memset(buffer, 0, n) on an array of n bytes
memset0(n) == Fill(n, NUL)

\* strncpy(dest, src, n): exactly n bytes are written, the string then NUL
\* padding; no terminator is written when the string has n or more bytes
strncpy(dest, src, n) ==
    LET s == CStr(src)
    IN  [k \in 1..Len(dest) |->
            IF k <= n THEN (IF k <= Len(s) THEN s[k] ELSE NUL) ELSE dest[k]]

\* "%d" of a non-negative int
RECURSIVE Dec(_)
Dec(n) == IF n < 10 THEN <<48 + n>> ELSE Dec(n \div 10) \o <<48 + (n % 10)>>

\* little-endian bytes of an int
IntBytes(n) == [k \in 1..INT_SIZE |-> (n \div (256 ^ (k - 1))) % 256]

\* snprintf(dest, size, ...) of the formatted text: at most size - 1 bytes
\* and a terminator; the bytes after the terminator are left as they were
snprintf(dest, size, text) ==
    LET n == Min(Len(text), size - 1)
    IN  [k \in 1..Len(dest) |->
            IF k <= n THEN text[k] ELSE IF k = n + 1 THEN NUL ELSE dest[k]]

\* "SERVER ACK: Received '"
AckHead ==
    <<83, 69, 82, 86, 69, 82, 32, 65, 67, 75, 58, 32,
      82, 101, 99, 101, 105, 118, 101, 100, 32, 39>>

\* "' ("
AckMid == <<39, 32, 40>>

\* " bytes)"
AckTail == <<32, 98, 121, 116, 101, 115, 41>>

\* the "%s" of msg.message: the scan starts at message[0] and runs through
\* the padding and message_length when the field holds no terminator
MessageString(msg) ==
    CStr(msg.message \o msg.pad \o IntBytes(msg.message_length))

ResponseText(msg) ==
    AckHead \o MessageString(msg) \o AckMid \o Dec(msg.message_length) \o AckTail

\* ------------------------------------------------------ socket semantics
\* Error state of one end of a connection: "none"; "pending" once a reset
\* has arrived and no call has reported it yet; "consumed" after a call
\* returned it (the socket is then shut down in both directions).

\* The sizes a recv may return when avail bytes could be returned: all of
\* them, or a short first chunk while the rest is still on its way
ChunkSizes(avail) == {k \in 1..avail : k = avail \/ k <= MaxSplit}

\* recv(fd, buf, max, 0) on a blocking socket: the possible results; the
\* empty set means the call blocks
RecvOutcomes(rxq, err, peerClosed, max) ==
    IF rxq # <<>>
    THEN {[ret |-> k, data |-> Take(rxq, k), rest |-> Drop(rxq, k), err |-> err] :
             k \in ChunkSizes(Min(Len(rxq), max))}
    ELSE IF err = "pending"
    THEN {[ret |-> -1, data |-> <<>>, rest |-> <<>>, err |-> "consumed"]}
    ELSE IF err = "consumed" \/ peerClosed
    THEN {[ret |-> 0, data |-> <<>>, rest |-> <<>>, err |-> err]}
    ELSE {}

\* send(fd, data, length, 0) without MSG_NOSIGNAL on a blocking socket with
\* SIGPIPE at its default disposition
SendOutcome(err) ==
    IF err = "pending" THEN "error"
    ELSE IF err = "consumed" THEN "sigpipe"
    ELSE "ok"

\* recv's store into the caller's buffer, and the terminator the callers add
\* when received > 0
StoreReceived(buffer, o) ==
    IF o.ret > 0
    THEN [k \in 1..Len(buffer) |->
            IF k <= o.ret THEN o.data[k] ELSE IF k = o.ret + 1 THEN NUL ELSE buffer[k]]
    ELSE buffer

\* ----------------------------------------------------------------- state
VARIABLES
    cpc,            \* Requester i: position in main
    c_input,        \* argv[1] (or the default message)
    c_app_buffer,   \* char app_buffer[BUFFER_SIZE]
    c_response,     \* char response[BUFFER_SIZE]
    c_sent,         \* send's return value (-2: not called)
    c_received,     \* recv's return value (-2: not called)
    c_exit,         \* exit status (-1: running)
    conn,           \* connection i: streams, closed ends, error state
    backlog,        \* connections whose handshake completed, not yet accepted
    spc,            \* Responder: position in main's loop
    client_socket,  \* the accepted connection (0: none)
    s_open,         \* accepted sockets the Responder holds open
    s_buffer,       \* char buffer[BUFFER_SIZE]
    s_msg,          \* ApplicationMessage msg
    s_response,     \* char response[BUFFER_SIZE]
    s_received,     \* recv's return value in receive_via_tcp
    s_trace,        \* socket calls made on client_socket since its accept
    txLog,          \* per connection: the bytes the Requester's send took
    rxLog,          \* per connection: the bytes recv returned to the Responder
    ackLog,         \* per connection: the response text the Responder built
    faults          \* environment faults so far

vars ==
    <<cpc, c_input, c_app_buffer, c_response, c_sent, c_received, c_exit, txLog, conn,
      backlog, spc, client_socket, s_open, s_buffer, s_msg, s_response,
      s_received, s_trace, rxLog, ackLog, faults>>

cvars ==
    <<cpc, c_input, c_app_buffer, c_response, c_sent, c_received, c_exit, txLog>>

svars ==
    <<spc, client_socket, s_open, s_buffer, s_msg, s_response, s_received,
      s_trace, rxLog, ackLog>>

NoConn ==
    [c2s |-> <<>>, s2c |-> <<>>, cfin |-> FALSE, sfin |-> FALSE,
     cerr |-> "none", serr |-> "none"]

Init ==
    /\ cpc = [i \in Clients |-> "start"]
    /\ c_input = [i \in Clients |-> <<>>]
    /\ c_app_buffer = [i \in Clients |-> Fill(BUFFER_SIZE, Indet)]
    /\ c_response = [i \in Clients |-> Fill(BUFFER_SIZE, Indet)]
    /\ c_sent = [i \in Clients |-> -2]
    /\ c_received = [i \in Clients |-> -2]
    /\ c_exit = [i \in Clients |-> -1]
    /\ conn = [i \in Clients |-> NoConn]
    /\ backlog = <<>>
    /\ spc = "accept"
    /\ client_socket = 0
    /\ s_open = {}
    /\ s_buffer = Fill(BUFFER_SIZE, Indet)
    /\ s_msg = [message |-> Fill(MESSAGE_SIZE, Indet), pad |-> <<Indet, Indet>>,
                message_length |-> 0]
    /\ s_response = Fill(BUFFER_SIZE, Indet)
    /\ s_received = -2
    /\ s_trace = <<>>
    /\ txLog = [i \in Clients |-> <<>>]
    /\ rxLog = [i \in Clients |-> <<>>]
    /\ ackLog = [i \in Clients |-> <<>>]
    /\ faults = 0

\* ------------------------------------------------------------- Requester
\* prepare_message with the copy bounded by size instead of size - 1 and
\* the terminator left out
prepare_message_Uncapped(user_input, buffer, size) ==
    strncpy(buffer, user_input, size)

prepare_message(user_input, buffer, size) ==
    [strncpy(buffer, user_input, size - 1) EXCEPT ![size] = NUL]

\* main up to and including establish_tcp_connection: the message is
\* prepared, then connect is refused (exit(1)) once nothing listens.
\* Requesters are interchangeable: they are numbered in the order they run.
establish_tcp_connection(i, lens) ==
    /\ cpc[i] = "start"
    /\ \A j \in Clients : j < i => cpc[j] # "start"
    /\ \E n \in lens, b \in Fills :
          /\ c_input' = [c_input EXCEPT ![i] = Fill(n, b)]
          /\ c_app_buffer' =
                [c_app_buffer EXCEPT ![i] = prepare_message(Fill(n, b), @, BUFFER_SIZE)]
    /\ IF spc = "killed"
       THEN /\ cpc' = [cpc EXCEPT ![i] = "exited"]
            /\ c_exit' = [c_exit EXCEPT ![i] = 1]
            /\ UNCHANGED backlog
       ELSE /\ cpc' = [cpc EXCEPT ![i] = "send"]
            /\ backlog' = Append(backlog, i)
            /\ UNCHANGED c_exit
    /\ UNCHANGED <<c_response, c_sent, c_received, txLog, conn, svars, faults>>

\* send_via_tcp(socket_fd, app_buffer), then main's memset of response
client_send_via_tcp(i) ==
    /\ cpc[i] = "send"
    /\ LET data == CStr(c_app_buffer[i])
           how == SendOutcome(conn[i].cerr)
       IN  CASE how = "ok" ->
                  /\ c_sent' = [c_sent EXCEPT ![i] = Len(data)]
                  /\ txLog' = [txLog EXCEPT ![i] = data]
                  /\ conn' = IF conn[i].sfin
                             THEN [conn EXCEPT ![i].cerr = IF data = <<>> THEN @ ELSE "pending"]
                             ELSE [conn EXCEPT ![i].c2s = @ \o data]
                  /\ cpc' = [cpc EXCEPT ![i] = "recv"]
                  /\ UNCHANGED c_exit
            [] how = "error" ->
                  /\ c_sent' = [c_sent EXCEPT ![i] = -1]
                  /\ conn' = [conn EXCEPT ![i].cerr = "consumed"]
                  /\ cpc' = [cpc EXCEPT ![i] = "recv"]
                  /\ UNCHANGED <<c_exit, txLog>>
            [] how = "sigpipe" ->
                  /\ cpc' = [cpc EXCEPT ![i] = "exited"]
                  /\ c_exit' = [c_exit EXCEPT ![i] = 141]
                  /\ conn' = [conn EXCEPT ![i].cfin = TRUE]
                  /\ UNCHANGED <<c_sent, txLog>>
    /\ c_response' = [c_response EXCEPT ![i] = memset0(BUFFER_SIZE)]
    /\ UNCHANGED <<c_input, c_app_buffer, c_received, backlog, svars, faults>>

\* receive_via_tcp(socket_fd, buffer, size): one recv of at most size - 1
\* bytes, terminated when received > 0
client_receive_via_tcp(buffer, size, rxq, err, peerClosed) ==
    {[ret |-> o.ret, rest |-> o.rest, err |-> o.err, buffer |-> StoreReceived(buffer, o)] :
        o \in RecvOutcomes(rxq, err, peerClosed, size - 1)}

\* main from receive_via_tcp(socket_fd, response, BUFFER_SIZE) to its end:
\* display_response, close(socket_fd), return 0. A close with unread data
\* resets the peer.
ClientReceive(i) ==
    /\ cpc[i] = "recv"
    /\ \E r \in client_receive_via_tcp(c_response[i], BUFFER_SIZE, conn[i].s2c,
                                       conn[i].cerr, conn[i].sfin) :
          /\ c_received' = [c_received EXCEPT ![i] = r.ret]
          /\ c_response' = [c_response EXCEPT ![i] = r.buffer]
          /\ conn' = [conn EXCEPT ![i].s2c = r.rest, ![i].cerr = r.err,
                                  ![i].cfin = TRUE,
                                  ![i].serr = IF r.rest # <<>> /\ ~conn[i].sfin /\ @ = "none"
                                              THEN "pending" ELSE @]
    /\ cpc' = [cpc EXCEPT ![i] = "exited"]
    /\ c_exit' = [c_exit EXCEPT ![i] = 0]
    /\ UNCHANGED <<c_input, c_app_buffer, c_sent, txLog, backlog, svars, faults>>

\* ------------------------------------------------------------- Responder
\* accept returns the oldest completed connection; the loop body's locals
\* (buffer, msg, response) are new objects of the same stack slots
ServerAccept ==
    /\ spc = "accept"
    /\ backlog # <<>>
    /\ client_socket' = Head(backlog)
    /\ backlog' = Tail(backlog)
    /\ s_open' = s_open \cup {Head(backlog)}
    /\ s_trace' = <<>>
    /\ spc' = "recv"
    /\ UNCHANGED <<cvars, conn, s_buffer, s_msg, s_response, s_received, rxLog, ackLog, faults>>

\* accept returns -1: perror, continue
AcceptFail ==
    /\ spc = "accept"
    /\ faults < MaxFaults
    /\ faults' = faults + 1
    /\ UNCHANGED <<cvars, conn, backlog, svars>>

\* receive_via_tcp(client_socket, buffer, BUFFER_SIZE) after the memset of
\* buffer: one recv of at most max_length - 1 bytes
server_receive_via_tcp(rxq, err, peerClosed, max_length) ==
    {[ret |-> o.ret, rest |-> o.rest, err |-> o.err, data |-> o.data,
      buffer |-> StoreReceived(memset0(BUFFER_SIZE), o)] :
        o \in RecvOutcomes(rxq, err, peerClosed, max_length - 1)}

\* ApplicationMessage msg, filled by main from buffer. msg is uninitialised:
\* junk holds the bytes of it that the strncpy does not write
FillMessage(buffer, junk) ==
    [message |-> strncpy(Fill(MESSAGE_SIZE - 1, Indet) \o <<junk[1]>>, buffer,
                         MESSAGE_SIZE - 1),
     pad |-> <<junk[2], junk[3]>>,
     message_length |-> strlen(buffer)]

\* the loop body from the receive to the response being built
ServerReceive ==
    /\ spc = "recv"
    /\ LET c == client_socket
       IN  \E r \in server_receive_via_tcp(conn[c].c2s, conn[c].serr, conn[c].cfin,
                                           BUFFER_SIZE),
              junk \in {<<g, g, g>> : g \in Garbage} :
              LET msg == FillMessage(r.buffer, junk)
                  response == snprintf(s_response, BUFFER_SIZE, ResponseText(msg))
              IN  /\ s_received' = r.ret
                  /\ s_buffer' = r.buffer
                  /\ s_msg' = msg
                  /\ s_response' = response
                  /\ conn' = [conn EXCEPT ![c].c2s = r.rest, ![c].serr = r.err]
                  /\ rxLog' = [rxLog EXCEPT ![c] = r.data]
                  /\ ackLog' = [ackLog EXCEPT ![c] = CStr(response)]
    /\ s_trace' = Append(s_trace, "recv")
    /\ spc' = "send"
    /\ UNCHANGED <<cvars, backlog, client_socket, s_open, faults>>

\* The process ends: the kernel closes its sockets. An accepted socket with
\* unread data, and every connection still queued on the listening socket,
\* is reset; the others are closed.
ProcessGone(cn, queue, held) ==
    [i \in Clients |->
        IF i \in held \/ (\E k \in 1..Len(queue) : queue[k] = i)
        THEN [cn[i] EXCEPT !.sfin = TRUE,
                           !.cerr = IF @ = "none" /\ ~cn[i].cfin
                                       /\ (i \notin held \/ cn[i].c2s # <<>>)
                                    THEN "pending" ELSE @]
        ELSE cn[i]]

\* send_via_tcp(client_socket, response, strlen(response)): the return value
\* of send is printed and not looked at
server_send_via_tcp ==
    /\ spc = "send"
    /\ LET c == client_socket
           data == CStr(s_response)
           how == SendOutcome(conn[c].serr)
       IN  CASE how = "ok" ->
                  /\ conn' = IF conn[c].cfin
                             THEN [conn EXCEPT ![c].serr = IF data = <<>> THEN @ ELSE "pending"]
                             ELSE [conn EXCEPT ![c].s2c = @ \o data]
                  /\ spc' = "close"
                  /\ UNCHANGED <<s_open, backlog>>
            [] how = "error" ->
                  /\ conn' = [conn EXCEPT ![c].serr = "consumed"]
                  /\ spc' = "close"
                  /\ UNCHANGED <<s_open, backlog>>
            [] how = "sigpipe" ->
                  /\ conn' = ProcessGone(conn, backlog, s_open)
                  /\ spc' = "killed"
                  /\ s_open' = {}
                  /\ backlog' = <<>>
    /\ s_trace' = Append(s_trace, "send")
    /\ UNCHANGED <<cvars, client_socket, s_buffer, s_msg, s_response, s_received,
                   rxLog, ackLog, faults>>

\* the loop going back to accept without the close of client_socket
ServerClose_Leak ==
    /\ spc = "close"
    /\ spc' = "accept"
    /\ UNCHANGED <<cvars, conn, backlog, client_socket, s_open, s_buffer, s_msg,
                   s_response, s_received, s_trace, rxLog, ackLog, faults>>

\* close(client_socket), then back to the top of the loop
ServerClose ==
    /\ spc = "close"
    /\ LET c == client_socket
       IN  conn' = [conn EXCEPT ![c].sfin = TRUE,
                                ![c].cerr = IF conn[c].c2s # <<>> /\ ~conn[c].cfin /\ @ = "none"
                                            THEN "pending" ELSE @]
    /\ s_open' = s_open \ {client_socket}
    /\ s_trace' = Append(s_trace, "close")
    /\ spc' = "accept"
    /\ UNCHANGED <<cvars, backlog, client_socket, s_buffer, s_msg, s_response,
                   s_received, rxLog, ackLog, faults>>

\* ----------------------------------------------------------- environment
\* An established connection is reset (the peer aborts, or the path does):
\* both ends learn of it at their next socket call
ConnReset(i) ==
    /\ cpc[i] \in {"send", "recv"}
    /\ ~conn[i].cfin /\ ~conn[i].sfin
    /\ conn[i].cerr = "none" /\ conn[i].serr = "none"
    /\ faults < MaxFaults
    /\ faults' = faults + 1
    /\ conn' = [conn EXCEPT ![i].cerr = "pending", ![i].serr = "pending"]
    /\ UNCHANGED <<cvars, backlog, svars>>

\* Two Requesters run against the Responder, their connections queueing on
\* the listening socket
Next ==
    \/ \E i \in Clients : establish_tcp_connection(i, QueueLens)
    \/ \E i \in Clients : client_send_via_tcp(i)
    \/ \E i \in Clients : ClientReceive(i)
    \/ \E i \in Clients : ConnReset(i)
    \/ ServerAccept
    \/ AcceptFail
    \/ ServerReceive
    \/ server_send_via_tcp
    \/ ServerClose

Spec == Init /\ [][Next]_vars

\* One Requester runs against the Responder, with every input length
NextOne ==
    \/ establish_tcp_connection(1, InputLens)
    \/ client_send_via_tcp(1)
    \/ ClientReceive(1)
    \/ ConnReset(1)
    \/ ServerAccept
    \/ AcceptFail
    \/ ServerReceive
    \/ server_send_via_tcp
    \/ ServerClose

SpecOne == Init /\ [][NextOne]_vars

\* ---------------------------------------------------------------- claims
\* The text the claims expect for a message M:
\* "SERVER ACK: Received '" M "' (" len(M) " bytes)"
AckFormat(M) == AckHead \o M \o AckMid \o Dec(Len(M)) \o AckTail

\* connection i has had its response built by the Responder
Built(i) == ackLog[i] # <<>>

\* the string the Requester i handed to send
Sent(i) == CStr(c_app_buffer[i])

\* C1: for every message M of at most BUFFER_SIZE - 1 bytes that the
\* Responder received on a connection, the response it built for that
\* connection is exactly the acknowledgment text of M: M in full and
\* unmodified, followed by the byte count len(M).
C1_AckEncodesMessage ==
    \A i \in Clients :
        (Built(i) /\ Len(rxLog[i]) <= BUFFER_SIZE - 1) => ackLog[i] = AckFormat(rxLog[i])

ClientBlockedInRecv(i) ==
    /\ cpc[i] = "recv"
    /\ client_receive_via_tcp(c_response[i], BUFFER_SIZE, conn[i].s2c, conn[i].cerr,
                              conn[i].sfin) = {}

ServerBlockedInRecv(i) ==
    /\ spc = "recv"
    /\ client_socket = i
    /\ server_receive_via_tcp(conn[i].c2s, conn[i].serr, conn[i].cfin, BUFFER_SIZE) = {}

\* C2: when the Requester runs with a zero-length message, there is no
\* reachable state in which the Requester and the Responder are both blocked
\* in recv on their connection, each waiting for the other.
C2_EmptyMessageNoMutualWait ==
    \A i \in Clients :
        (cpc[i] # "start" /\ c_input[i] = <<>>)
            => ~(ClientBlockedInRecv(i) /\ ServerBlockedInRecv(i))

\* C3: once the Responder is in its accept loop, no peer behaviour and no
\* failure of accept, recv or send terminates the Responder process.
C3_ResponderNeverTerminates == spc # "killed"

\* C4: the Responder holds at most one accepted socket open; the calls on an
\* accepted socket are recv, send, close in that order, once each; and at
\* every accept call no accepted socket is open and the previously accepted
\* connection (if any) has gone through all three.
C4_SequentialHandling ==
    /\ Cardinality(s_open) <= 1
    /\ \E n \in 0..3 : s_trace = SubSeq(<<"recv", "send", "close">>, 1, n)
    /\ spc = "accept" =>
          /\ s_open = {}
          /\ s_trace \in {<<>>, <<"recv", "send", "close">>}
    /\ spc \in {"recv", "send", "close"} => s_open = {client_socket}

\* A second connection is waiting when the Responder comes back to accept
\* after serving one, and is then accepted.
C4_Witness ==
    /\ spc = "recv"
    /\ client_socket = 2
    /\ Built(1)
    /\ conn[1].sfin

\* C5: the Requester exits with code 0 only when the whole exchange
\* succeeded: the message was fully sent and a response was received (recv
\* returned more than zero bytes).
C5_ExitZeroOnlyOnSuccess ==
    \A i \in Clients :
        c_exit[i] = 0 => (c_sent[i] = Len(Sent(i)) /\ c_received[i] > 0)

\* C6: the response built for a connection is a function only of the bytes
\* received on that connection: two connections on which the Responder
\* received the same bytes get the same response.
C6_AckFunctionOfReceived ==
    \A i, j \in Clients :
        (Built(i) /\ Built(j) /\ rxLog[i] = rxLog[j]) => ackLog[i] = ackLog[j]

\* C7: when the Requester's send of a message of at most BUFFER_SIZE - 1
\* bytes succeeded and the Responder's recv returned data, the Message the
\* Responder acknowledges is the whole message the Requester sent, however
\* the stream chunked it.
C7_WholeMessageAcknowledged ==
    \A i \in Clients :
        (Built(i) /\ rxLog[i] # <<>> /\ c_sent[i] >= 0) => rxLog[i] = txLog[i]

\* C8: the response the Requester displays after a successful recv is every
\* byte of the response the Responder built for that connection, however the
\* stream chunked it.
C8_ResponseIsWholeAck ==
    \A i \in Clients :
        (cpc[i] = "exited" /\ c_received[i] > 0) => CStr(c_response[i]) = ackLog[i]

C10_BuffersTerminated ==
    /\ spc \in {"send", "close"} =>
          /\ Terminated(s_buffer)
          /\ Terminated(s_msg.message)
          /\ Terminated(s_response)
    /\ \A i \in Clients :
          /\ cpc[i] # "start" => Terminated(c_app_buffer[i])
          /\ c_received[i] # -2 => Terminated(c_response[i])

====
